---- MODULE Spec2Model ----
(***************************************************************************)
(* Model of the guarded-tls crate (src/src/lib.rs): one key declared with  *)
(* guarded_thread_local!, its per-thread store Inner.item (a Vec of        *)
(* Option<T> behind a RefCell), GuardedKey::set, GuardedKey::get and       *)
(* Guard::drop.                                                            *)
(*                                                                         *)
(* A thread_local! static has one RefCell<Inner<T>> per thread; LocalKey   *)
(* resolves to the instance of the thread that executes the call.  Guard   *)
(* holds a &'static LocalKey and a usize, so it is Send: a guard may be    *)
(* dropped on a thread other than the one whose set created it.            *)
(*                                                                         *)
(* get runs T::clone while the RefCell is borrowed; the Clone impl is user *)
(* code and may call set, get or drop a guard of the same key.  A panic    *)
(* is not caught: it unwinds every call in progress on the thread,         *)
(* releasing their borrows, and the thread ends.                           *)
(***************************************************************************)
EXTENDS Integers, Sequences, FiniteSets, TLC

\* Threads that use the key, and the values of T passed to set.
Threads == {1, 2}
Values == {1, 2}

\* Bounds of the model: the set calls of a run, over all threads, and the get
\* calls in progress at once, over all threads.
MaxSets == 4
MaxDepth == 2

\* Option<T>
None == <<>>
Some(v) == <<v>>

VARIABLES
    item,       \* item[t]: Inner.item of thread t's store, a Vec<Option<T>>
    borrow,     \* borrow[t]: RefCell borrow flag of thread t's store (>0 shared, <0 exclusive)
    guards,     \* the Guard values that exist (created, not yet dropped)
    cloning,    \* cloning[t]: the get calls in progress on t, each inside T::clone
    panicked,   \* panicked[t]: a panic has ended thread t
    last,       \* the operation that ran last and its outcome
    tag,        \* history: tag[t][i] is the number of the set call that pushed slot i
    nsets,      \* history: nsets[t] counts the set calls completed on t
    fifo,       \* history: every drop so far of a guard of t, or run by t, was run
                \* by t on the oldest guard of t and did not panic
    maxActive   \* history: the largest number of t's guards that existed at once

vars == <<item, borrow, guards, cloning, panicked, last, tag, nsets, fifo, maxActive>>

\* Guard { inner, index } is modelled as [thread, seq, index, val]: index is the
\* field; thread, seq and val record the set call that made the guard (seq
\* counts the set calls of that thread).

\* Inner::new
InnerNew == <<>>

\* Vec::pop
VecPop(s) == SubSeq(s, 1, Len(s) - 1)

\* An if in place of the while: at most one trailing None is popped.
CompactOnce(s) ==
    IF Len(s) > 0 /\ s[Len(s)] = None THEN VecPop(s) ELSE s

\* The while loop of Guard::drop: pop while the last entry is None.
RECURSIVE Compact(_)
Compact(s) ==
    IF Len(s) > 0 /\ s[Len(s)] = None THEN Compact(VecPop(s)) ELSE s

\* The index taken as 1-based: the slot before the guard's is cleared.
ClearSlotOffByOne(s, index) ==
    IF index = 0 THEN s ELSE [s EXCEPT ![index] = None]

\* *inner.item.get_mut(index).unwrap() = None (index is 0-based).
ClearSlot(s, index) == [s EXCEPT ![index + 1] = None]

\* A set that reuses the first None slot when there is one.
PushFill(s, v) ==
    IF \E i \in 1..Len(s) : s[i] = None
    THEN [s EXCEPT ![CHOOSE i \in 1..Len(s) :
                        s[i] = None /\ \A j \in 1..(i - 1) : s[j] # None] = Some(v)]
    ELSE Append(s, Some(v))

\* inner.item.push(Some(t))
PushSome(s, v) == Append(s, Some(v))

\* The length after the push in place of the position of the pushed entry.
NewIndexLen(s) == Len(s)

\* The index set gives the new guard: inner.item.len() - 1 after the push.
NewIndex(s) == Len(s) - 1

\* An exclusive borrow that shared borrows do not exclude.
CanBorrowMutShared(b) == b >= 0

\* RefCell::borrow_mut succeeds only when there is no borrow at all.
CanBorrowMut(b) == b = 0

\* RefCell::borrow succeeds unless the cell is exclusively borrowed.
CanBorrow(b) == b >= 0

\* A panic unwinds the calls in progress on thread t and drops their borrows.
Unwound(f, t, empty) == [f EXCEPT ![t] = empty]

\* The record of an operation: the thread, the operation, how it ended ("ok",
\* "cloning" for a get inside T::clone, or the panic), the value a get
\* returned, whether it was called from T::clone of a get in progress, and
\* whether a get was called from the T::clone of this get.
Outcome(t, op, kind, val, inClone, nested) ==
    [t |-> t, op |-> op, kind |-> kind, val |-> val,
     inClone |-> inClone, nested |-> nested]

\* The guards made by set calls of thread t that still exist.
GuardsOf(t) == {g \in guards : g.thread = t}

\* The sum of f over the threads in S.
RECURSIVE Total(_, _)
Total(f, S) ==
    IF S = {} THEN 0
    ELSE LET t == CHOOSE x \in S : TRUE IN f[t] + Total(f, S \ {t})

\* A key whose storage is one plain static, shared by every thread.
LocalShared(t) == CHOOSE k \in Threads : \A u \in Threads : k <= u

\* LocalKey::with on thread t: thread_local! gives every thread its own
\* RefCell<Inner<T>>, and the key resolves to the one of the executing thread.
Local(t) == t

Init ==
    /\ item = [t \in Threads |-> InnerNew]
    /\ borrow = [t \in Threads |-> 0]
    /\ guards = {}
    /\ cloning = [t \in Threads |-> <<>>]
    /\ panicked = [t \in Threads |-> FALSE]
    /\ last = Outcome(0, "init", "ok", 0, FALSE, FALSE)
    /\ tag = [t \in Threads |-> <<>>]
    /\ nsets = [t \in Threads |-> 0]
    /\ fifo = [t \in Threads |-> TRUE]
    /\ maxActive = [t \in Threads |-> 0]

\* The uncaught panic of an operation of thread t.
Panic(t, op, kind, inClone) ==
    /\ last' = Outcome(t, op, kind, 0, inClone, FALSE)
    /\ cloning' = Unwound(cloning, t, <<>>)
    /\ borrow' = Unwound(borrow, Local(t), 0)
    /\ panicked' = [panicked EXCEPT ![t] = TRUE]

\* GuardedKey::set(t: T) executed by thread t.
set(t, v) ==
    LET k == Local(t)
        inClone == cloning[t] # <<>>
    IN IF ~CanBorrowMut(borrow[k])
       THEN \* with_borrow_mut panics: already borrowed: BorrowMutError
            /\ Panic(t, "set", "BorrowMutError", inClone)
            /\ UNCHANGED <<item, guards, tag, nsets, fifo, maxActive>>
       ELSE LET pushed == PushSome(item[k], v)
                g == [thread |-> t, seq |-> nsets[t] + 1,
                      index |-> NewIndex(pushed), val |-> v]
            IN /\ Total(nsets, Threads) < MaxSets
               /\ item' = [item EXCEPT ![k] = pushed]
               /\ guards' = guards \cup {g}
               /\ tag' = [tag EXCEPT ![k] = Append(@, g.seq)]
               /\ nsets' = [nsets EXCEPT ![t] = @ + 1]
               /\ maxActive' = [maxActive EXCEPT
                                  ![t] = IF Cardinality(GuardsOf(t)) + 1 > @
                                         THEN Cardinality(GuardsOf(t)) + 1 ELSE @]
               /\ last' = Outcome(t, "set", "ok", 0, inClone, FALSE)
               /\ UNCHANGED <<borrow, cloning, panicked, fifo>>

Set == \E t \in Threads, v \in Values : ~panicked[t] /\ set(t, v)

\* pop() in place of last(): the read takes the last entry out of the store.
ReadTake(s) == VecPop(s)

\* The store after with_borrow(|inner| inner.item.last().cloned()): the closure
\* has a shared reference, and last and cloned leave the Vec as it is.
Read(s) == s

\* What inner.item.last().cloned() and the code after it make of store s, T::clone
\* aside: the unset-access panic, the internal-error panic, or the value of
\* the last entry.
Peek(s) ==
    IF Len(s) = 0 THEN [kind |-> "unset", val |-> 0]
    ELSE IF s[Len(s)] = None THEN [kind |-> "internal", val |-> 0]
    ELSE [kind |-> "ok", val |-> s[Len(s)][1]]

\* The enclosing get call, if any, has had a get called from its T::clone.
MarkNested(frames) ==
    IF frames = <<>> THEN frames
    ELSE [frames EXCEPT ![Len(frames)].nested = TRUE]

\* GuardedKey::get executed by thread t, up to the call of T::clone on the last
\* entry, which runs while with_borrow holds the shared borrow.
get(t) ==
    LET k == Local(t)
        inClone == cloning[t] # <<>>
        seen == Peek(item[k])
    IN IF ~CanBorrow(borrow[k])
       THEN \* with_borrow panics: already mutably borrowed: BorrowError
            /\ Panic(t, "get", "BorrowError", inClone)
            /\ UNCHANGED <<item, guards, tag, nsets, fifo, maxActive>>
       ELSE IF seen.kind # "ok"
       THEN \* last() is None: panic "cannot access a guarded thread local variable
            \* without calling `set` first"; the last entry is None: expect panics
            \* "internal error: top of item list is none"
            /\ Panic(t, "get", seen.kind, inClone)
            /\ UNCHANGED <<item, guards, tag, nsets, fifo, maxActive>>
       ELSE /\ Total(borrow, Threads) < MaxDepth
            /\ cloning' = [cloning EXCEPT
                             ![t] = Append(MarkNested(@),
                                           [val |-> seen.val, nested |-> FALSE])]
            /\ borrow' = [borrow EXCEPT ![k] = @ + 1]
            /\ item' = [item EXCEPT ![k] = Read(@)]
            /\ last' = Outcome(t, "get", "cloning", 0, inClone, FALSE)
            /\ UNCHANGED <<guards, panicked, tag, nsets, fifo, maxActive>>

Get == \E t \in Threads : ~panicked[t] /\ get(t)

\* T::clone of the innermost get in progress on thread t returns: with_borrow
\* ends, the borrow is released and get returns the clone.
cloneReturns(t) ==
    /\ cloning[t] # <<>>
    /\ LET f == cloning[t][Len(cloning[t])]
           rest == VecPop(cloning[t])
       IN /\ cloning' = [cloning EXCEPT ![t] = rest]
          /\ borrow' = [borrow EXCEPT ![Local(t)] = @ - 1]
          /\ last' = Outcome(t, "get", "ok", f.val, rest # <<>>, f.nested)
    /\ UNCHANGED <<item, guards, panicked, tag, nsets, fifo, maxActive>>

CloneReturns == \E t \in Threads : ~panicked[t] /\ cloneReturns(t)

\* g is the oldest guard of its thread that still exists.
Oldest(g) == \A h \in GuardsOf(g.thread) : g.seq <= h.seq

\* <Guard as Drop>::drop of guard g executed by thread t.
drop(t, g) ==
    LET k == Local(t)
        inClone == cloning[t] # <<>>
    IN /\ g \in guards
       /\ guards' = guards \ {g}
       /\ IF ~CanBorrowMut(borrow[k])
          THEN \* with_borrow_mut panics: already borrowed: BorrowMutError
               /\ Panic(t, "drop", "BorrowMutError", inClone)
               /\ fifo' = [x \in Threads |-> fifo[x] /\ x # t /\ x # g.thread]
               /\ UNCHANGED <<item, tag, nsets, maxActive>>
          ELSE IF g.index >= Len(item[k])
          THEN \* get_mut(index) is None: unwrap panics, the store is as it was
               /\ Panic(t, "drop", "unwrap", inClone)
               /\ fifo' = [x \in Threads |-> fifo[x] /\ x # t /\ x # g.thread]
               /\ UNCHANGED <<item, tag, nsets, maxActive>>
          ELSE LET compacted == Compact(ClearSlot(item[k], g.index))
               IN /\ item' = [item EXCEPT ![k] = compacted]
                  /\ tag' = [tag EXCEPT ![k] = SubSeq(@, 1, Len(compacted))]
                  /\ last' = Outcome(t, "drop", "ok", 0, inClone, FALSE)
                  /\ fifo' = [x \in Threads |->
                                 fifo[x] /\ (x \in {t, g.thread}
                                                => t = g.thread /\ Oldest(g))]
                  /\ UNCHANGED <<nsets, maxActive, borrow, cloning, panicked>>

\* A guard is dropped by the thread whose set call made it.
Drop == \E g \in guards : ~panicked[g.thread] /\ drop(g.thread, g)

\* A guard moved to another thread (Guard is Send) is dropped there.
DropMoved ==
    \E g \in guards : \E t \in Threads \ {g.thread} : ~panicked[t] /\ drop(t, g)

Next == Set \/ Get \/ CloneReturns \/ Drop \/ DropMoved

Spec == Init /\ [][Next]_vars

\* Every guard is dropped by the thread that made it.
NextLocal == Set \/ Get \/ CloneReturns \/ Drop

SpecLocal == Init /\ [][NextLocal]_vars

(***************************************************************************)
(* Properties                                                              *)
(***************************************************************************)

\* The guards in G made by set calls of thread t.
GuardsIn(G, t) == {g \in G : g.thread = t}

\* The most recently created guard of thread t in G.
NewestIn(G, t) ==
    CHOOSE g \in GuardsIn(G, t) : \A h \in GuardsIn(G, t) : h.seq <= g.seq

\* The result of get on thread t when t has the guards G: the value of the most
\* recently created one, and the unset-access panic when there is none.
Expected(G, t) ==
    IF GuardsIn(G, t) = {} THEN [kind |-> "unset", val |-> 0]
    ELSE [kind |-> "ok", val |-> NewestIn(G, t).val]

\* Store it (with the set-call numbers tg of its slots) holds the override that
\* the set call of guard g pushed.
HasOverride(it, tg, g) ==
    \E i \in 1..Len(it[g.thread]) :
        tg[g.thread][i] = g.seq /\ it[g.thread][i] # None

\* C1: a get that succeeds reads the value passed to the most recently created
\* guard of the calling thread that has not been released.
C1_GetReturnsNewestActive ==
    (last.op = "get" /\ last.kind = "cloning")
        => [kind |-> "ok", val |-> cloning[last.t][Len(cloning[last.t])].val]
               = Expected(guards, last.t)

\* C2: on every running thread, get fails with the unset-access panic exactly
\* when the thread has no unreleased guard.
C2_UnsetIffNoActiveGuard ==
    \A t \in Threads :
        ~panicked[t] => (Peek(item[t]).kind = "unset" <=> GuardsOf(t) = {})

\* C3: right after set(v), get on that thread returns v; and releasing the most
\* recently created unreleased guard of a thread makes get on that thread
\* return the value of the most recent guard that remains, or fail with
\* unset-access when none remains.
C3_SetThenGetAndReleaseNewest ==
    [][/\ \A g \in guards' \ guards :
            Peek(item'[g.thread]) = [kind |-> "ok", val |-> g.val]
       /\ \A g \in guards \ guards' :
            (g = NewestIn(guards, g.thread) /\ ~panicked'[g.thread])
                => Peek(item'[g.thread]) = Expected(guards', g.thread)]_vars

\* C4: releasing a guard that is not the most recently created unreleased guard
\* of its thread leaves the result of get as it was.
C4_ReleaseOfOlderGuardKeepsGet ==
    [][\A g \in guards \ guards' :
          g # NewestIn(guards, g.thread)
              => \A u \in Threads :
                    ~panicked'[u] => Peek(item'[u]) = Peek(item[u])]_vars

\* C5: whichever thread runs it, the release of a guard removes the override its
\* set call pushed, and removes the override of no other unreleased guard.
C5_ReleaseRemovesExactlyOwnOverride ==
    [][\A g \in guards \ guards' :
          /\ ~panicked'[g.thread] => ~HasOverride(item', tag', g)
          /\ \A h \in guards' :
                HasOverride(item, tag, h) => HasOverride(item', tag', h)]_vars

\* C6: an operation changes only the store of the thread that runs it, and a
\* thread that has not called set is unset.
C6_StoresArePerThread ==
    [][\A u \in Threads :
          /\ last'.t # u => (item'[u] = item[u] /\ borrow'[u] = borrow[u])
          /\ nsets'[u] = 0 => Peek(item'[u]).kind = "unset"]_vars

\* Both threads have a value of their own, and get returns each thread its own.
C6_Witness ==
    /\ last.op = "get" /\ last.kind = "ok" /\ last.t = 2 /\ last.val = 2
    /\ Peek(item[1]) = [kind |-> "ok", val |-> 1]

\* C7: a set called from T::clone while a get of the same thread is in progress
\* panics with BorrowMutError, which is not the unset-access panic, and the
\* get in progress returns nothing: the panic ends it.
C7_SetInsideCloneFaults ==
    /\ (last.op = "set" /\ last.inClone)
           => /\ last.kind = "BorrowMutError"
              /\ cloning[last.t] = <<>>
              /\ panicked[last.t]
    /\ (last.op = "get" /\ last.kind = "ok") => ~panicked[last.t]

\* A set was called from T::clone of a get in progress and panicked.
C7_Witness ==
    /\ last.op = "set" /\ last.inClone /\ last.kind = "BorrowMutError"
    /\ Peek(item[last.t]).kind = "ok"

\* C8: a get called from T::clone while a get of the same thread is in progress
\* panics; it neither proceeds nor returns, and the outer get does not return.
C8_GetInsideCloneFaults ==
    /\ (last.op = "get" /\ last.inClone) => last.kind \notin {"ok", "cloning"}
    /\ (last.op = "get" /\ last.kind = "ok") => ~last.nested

\* C9: once every guard a running thread created has been released, in whatever
\* order, the store of that thread is empty.
C9_AllReleasedStoreEmpty ==
    \A t \in Threads :
        (~panicked[t] /\ nsets[t] > 0 /\ GuardsOf(t) = {}) => Len(item[t]) = 0

\* C10 as stated: while a thread's guards are released oldest first, the length
\* of its store stays within the largest number of its guards that existed at
\* once.
C10_LengthWithinMaxActive ==
    \A t \in Threads : fifo[t] => Len(item[t]) <= maxActive[t]

\* C10 as amended: the length of a store stays within the number of set calls
\* made on its thread; while the thread's guards are released oldest first it
\* is one more than the index of the newest unreleased guard, and 0 when no
\* guard is left.
C10_LengthWithinSetCalls ==
    \A t \in Threads :
        /\ Len(item[t]) <= nsets[t]
        /\ fifo[t] => Len(item[t]) = IF GuardsOf(t) = {} THEN 0
                                     ELSE NewestIn(guards, t).index + 1

\* Guards released oldest first, never more than two at once, and a store of
\* three slots.
C10_Witness ==
    \E t \in Threads :
        /\ fifo[t] /\ maxActive[t] = 2 /\ Len(item[t]) = 3
        /\ item[t][1] = None /\ last.op = "drop"

\* The number of Some entries of store s.
SomeCount(s) == Cardinality({i \in 1..Len(s) : s[i] # None})

\* C11: when every guard is dropped by the thread that made it, the store of a
\* running thread has as many Some entries as the thread has unreleased guards,
\* and is no longer than the number of set calls the thread has made.
C11_SomeCountIsActiveCount ==
    \A t \in Threads :
        ~panicked[t] => /\ SomeCount(item[t]) = Cardinality(GuardsOf(t))
                        /\ Len(item[t]) <= nsets[t]

\* Three set calls and the release of the second guard: a None between two Some.
C11_Witness ==
    \E t \in Threads :
        /\ last.op = "drop" /\ last.kind = "ok" /\ last.t = t
        /\ Len(item[t]) = 3 /\ item[t][2] = None
        /\ Cardinality(GuardsOf(t)) = 2

\* C12: no store ever ends in a None entry, whichever threads ran the set calls
\* and the releases, so get never panics with "internal error: top of item
\* list is none".
C12_NoTrailingNone ==
    /\ \A t \in Threads : Peek(item[t]).kind # "internal"
    /\ last.kind # "internal"

\* Two guards released oldest first: the second release finds the None the
\* first one left in front of it and pops both entries.
C12_Witness ==
    \E t \in Threads :
        /\ last.op = "drop" /\ last.kind = "ok" /\ last.t = t
        /\ fifo[t] /\ maxActive[t] = 2 /\ nsets[t] = 2 /\ item[t] = <<>>

\* C13: two different unreleased guards of the same thread never hold the same
\* index.
C13_ActiveGuardsHaveDistinctIndices ==
    \A g, h \in guards :
        (g # h /\ g.thread = h.thread) => g.index # h.index

\* One more than the largest index held by a guard of thread t in G, and 0 when
\* t has no guard in G.
LengthForGuards(G, t) ==
    IF GuardsIn(G, t) = {} THEN 0
    ELSE (CHOOSE g \in GuardsIn(G, t) :
              \A h \in GuardsIn(G, t) : h.index <= g.index).index + 1

\* C14: after a release that the creating thread runs to the end, the length of
\* that thread's store is one more than the largest index held by an
\* unreleased guard of the thread, and 0 when it has none.
C14_LengthAfterRelease ==
    [][\A g \in guards \ guards' :
          (last'.t = g.thread /\ last'.kind = "ok")
              => Len(item'[g.thread]) = LengthForGuards(guards', g.thread)]_vars

\* C15: a set call that returns a guard appends one Some entry holding its value,
\* gives the guard the length the store had before the call as its index and
\* changes no other entry; and a None entry stays where it is for as long as
\* an entry after it is Some.
C15_SetOnlyAppends ==
    [][/\ \A g \in guards' \ guards :
            /\ item'[g.thread] = Append(item[g.thread], Some(g.val))
            /\ g.index = Len(item[g.thread])
       /\ \A t \in Threads : \A i \in 1..Len(item[t]) :
            (item[t][i] = None
                 /\ \E j \in (i + 1)..Len(item'[t]) : item'[t][j] # None)
                => item'[t][i] = None]_vars

\* A set call has appended its value behind a None entry.
C15_Witness ==
    \E t \in Threads :
        /\ last.op = "set" /\ last.kind = "ok" /\ last.t = t
        /\ Len(item[t]) = 3 /\ item[t][1] = None /\ item[t][2] # None
        /\ item[t][3] = Some(2)

\* C16: a get call, whether it returns a value or panics with unset-access,
\* leaves every store and every guard as they were, and the value it returns
\* is the value the next get call of the thread reads: a get call that follows
\* a returned get call of the same thread directly reads the value it returned.
C16_GetIsPureRead ==
    [][last'.op = "get"
          => /\ item' = item
             /\ guards' = guards
             /\ last'.kind = "ok"
                    => Peek(item'[last'.t]) = [kind |-> "ok", val |-> last'.val]
             /\ (last.op = "get" /\ last.kind = "ok" /\ last'.kind = "cloning"
                     /\ last'.t = last.t)
                    => cloning'[last.t][Len(cloning'[last.t])].val = last.val]_vars

\* A get call has returned the value on top of a store of two entries.
C16_Witness ==
    /\ last.op = "get" /\ last.kind = "ok" /\ ~last.inClone /\ last.val = 2
    /\ item[last.t] = <<Some(1), Some(2)>>

\* C17: on a single thread (no guard leaves the thread that created it), every
\* guard that can be released has an index below the length of the store and a
\* Some entry at that index, and no release panics in get_mut(index).unwrap().
C17_ReleaseLookupNeverFaults ==
    /\ \A g \in guards :
           ~panicked[g.thread]
               => /\ g.index < Len(item[g.thread])
                  /\ item[g.thread][g.index + 1] # None
    /\ last.kind # "unwrap"

\* A guard below the top has been released: its slot was found and cleared,
\* and the store still holds the later entry.
C17_Witness ==
    /\ last.op = "drop" /\ last.kind = "ok"
    /\ item[last.t] = <<None, Some(2)>>
    /\ Cardinality(GuardsOf(last.t)) = 1

\* C18: a set call made while a get call of the same thread is in progress (from
\* inside T::clone) panics and leaves every store and every guard as they were:
\* nothing is pushed and no guard is created, so the store after the panic is
\* the store the outer get call read.
C18_ReentrantSetFaultLeavesStore ==
    [][(last'.op = "set" /\ last'.inClone)
          => /\ last'.kind = "BorrowMutError"
             /\ item' = item
             /\ guards' = guards
             /\ Peek(item'[last'.t]).kind = "ok"
             /\ Peek(item'[last'.t]).val = cloning[last'.t][1].val]_vars

\* A set call inside the clone of a get call on a store of two entries has
\* panicked.
C18_Witness ==
    /\ last.op = "set" /\ last.kind = "BorrowMutError" /\ last.inClone
    /\ Len(item[last.t]) = 2
    /\ Cardinality(GuardsOf(last.t)) = 2
====
